---- MODULE Spec2Model ----
(***************************************************************************)
(* Reconciliation and maintenance logic of the Azure AI Foundry agent      *)
(* scripts: src/utils/create_or_update_agents.py (the batch script) and    *)
(* src/utils/update_foundry_agents_mcp.py (the standalone script).         *)
(*                                                                         *)
(* Python values are modelled as follows.  None and an absent key or       *)
(* attribute are the string "None".  An optional list is a record          *)
(* [isNone, items].  A tool is one record shape for the three              *)
(* representations the code distinguishes (MCPTool object,                 *)
(* WebSearchPreviewTool object, raw mapping); `repr` tells which.          *)
(***************************************************************************)
EXTENDS Integers, Sequences, FiniteSets, TLC

VARIABLES
    remote,            \* remote store: agent name -> sequence of versions
    pc,                \* position of main() or of the operation under study
    mode,              \* the mode chosen by prompt_mode
    selection,         \* declared agents selected for a batch run (payloads)
    remote_selection,  \* remote agent names selected for a maintenance run
    existing_agents,   \* snapshot of the remote names taken before the loop
    idx,               \* position of the for loop in the selection (1-based)
    calls,             \* remote write calls issued by the current run
    outcomes,          \* outcomes reported (printed) by the current run
    failAt,            \* positions whose remote write call raises
    runs,              \* operations started so far
    input,             \* the argument the function under study was given
    latest_batch,      \* result of get_latest_agent_version (batch script)
    latest_standalone, \* result of get_agent_details (standalone script)
    applied,           \* the maintenance operations run so far, with their results
    parsed             \* result of parse_selection_indices

\* the state of main() of the batch script
mainVars == <<pc, mode, selection, remote_selection, existing_agents, idx, outcomes,
              failAt, runs>>

\* the results of the version selectors
selectVars == <<input, latest_batch, latest_standalone>>

vars == <<remote, calls, mainVars, selectVars, applied, parsed>>

----------------------------------------------------------------------------
(* Bounds of the model *)

MaxSel == 2
MaxRuns == 2
MaxList == 2
MaxOrdinal == 2
MaxTools == 2
MaxApply == 2

----------------------------------------------------------------------------
(* Python values *)

None == "None"

\* bool(x) of an optional string: None and "" are falsy
Truthy(s) == s # None /\ s # ""

\* a or b
PyOr(a, b) == IF Truthy(a) THEN a ELSE b

NoneList == [isNone |-> TRUE, items |-> << >>]

SomeList(s) == [isNone |-> FALSE, items |-> s]

\* xs or None
OrNone(s) == IF s = << >> THEN NoneList ELSE SomeList(s)

----------------------------------------------------------------------------
(* Tools and definitions *)

MCPTool(server_label, server_url, project_connection_id, allowed_tools, require_approval) ==
    [repr |-> "MCPTool", type |-> "mcp",
     server_label |-> server_label, server_url |-> server_url,
     project_connection_id |-> project_connection_id,
     allowed_tools |-> allowed_tools, require_approval |-> require_approval]

WebSearchPreviewTool ==
    [repr |-> "WebSearchPreviewTool", type |-> "web_search_preview",
     server_label |-> None, server_url |-> None, project_connection_id |-> None,
     allowed_tools |-> None, require_approval |-> None]

\* a tool kept as the raw mapping: tool.get(k) is the field k, None when absent
RawTool(type, server_label, server_url, project_connection_id, allowed_tools, require_approval) ==
    [repr |-> "dict", type |-> type,
     server_label |-> server_label, server_url |-> server_url,
     project_connection_id |-> project_connection_id,
     allowed_tools |-> allowed_tools, require_approval |-> require_approval]

\* tool.get(key, default) on a raw mapping
DictGet(v, default) == IF v = None THEN default ELSE v

PromptAgentDefinition(kind, model, instructions, tools, temperature, top_p, text) ==
    [isNone |-> FALSE, kind |-> kind, model |-> model, instructions |-> instructions,
     tools |-> tools, temperature |-> temperature, top_p |-> top_p, text |-> text]

\* a version that carries no definition
NoDefinition ==
    [isNone |-> TRUE, kind |-> None, model |-> None, instructions |-> None,
     tools |-> NoneList, temperature |-> None, top_p |-> None, text |-> None]

BuildTool(tool) ==
    IF tool.type = "web_search_preview" THEN WebSearchPreviewTool
    ELSE IF tool.type = "mcp"
         THEN MCPTool(DictGet(tool.server_label, ""), DictGet(tool.server_url, ""),
                      tool.project_connection_id, tool.allowed_tools,
                      tool.require_approval)
         ELSE tool

build_tools(tool_defs) ==
    IF tool_defs.isNone \/ tool_defs.items = << >>
    THEN NoneList
    ELSE OrNone([i \in 1..Len(tool_defs.items) |-> BuildTool(tool_defs.items[i])])

build_definition(def_block) ==
    PromptAgentDefinition(DictGet(def_block.kind, "prompt"), def_block.model,
                          def_block.instructions, build_tools(def_block.tools),
                          def_block.temperature, def_block.top_p, def_block.text)

----------------------------------------------------------------------------
(* Declared agents (YAML payloads) *)

\* the `definition` block of a payload; isNone: the key is absent
DefBlock(kind, model, instructions, tools, temperature, top_p, text) ==
    [isNone |-> FALSE, kind |-> kind, model |-> model, instructions |-> instructions,
     tools |-> tools, temperature |-> temperature, top_p |-> top_p, text |-> text]

NoDefBlock ==
    [isNone |-> TRUE, kind |-> None, model |-> None, instructions |-> None,
     tools |-> NoneList, temperature |-> None, top_p |-> None, text |-> None]

EmptyDefBlock == DefBlock(None, None, None, NoneList, None, None, None)

\* bool(definition_block): None and the empty mapping are falsy
DefBlockTruthy(b) == ~b.isNone /\ b # EmptyDefBlock

Payload(name, description, metadata_description, definition) ==
    [name |-> name, description |-> description,
     metadata_description |-> metadata_description, definition |-> definition]

RawMcp == RawTool("mcp", "docs", "https://mcp", None, "search", "always")

RawWeb == RawTool("web_search_preview", None, None, None, None, None)

BlockA == DefBlock(None, "gpt-5", "be brief", SomeList(<<RawMcp, RawWeb>>), "0.2", None, None)

BlockB == DefBlock("prompt", "gpt-4o", None, NoneList, None, None, "json")

PayloadPool ==
    { Payload("A", "first", None, BlockA),
      Payload("B", None, "second", BlockB),
      Payload(None, None, None, BlockB),
      Payload("", "x", None, BlockA),
      Payload("A", None, None, NoDefBlock),
      Payload("B", None, None, EmptyDefBlock) }

RemoteNames == {"A", "B"}

\* the listing order of agents.list()
ListingOrder == <<"A", "B">>

\* mutant: the definition block is not checked
PayloadInvalid_NameOnly(p) == ~Truthy(p.name)

PayloadInvalid(p) == ~Truthy(p.name) \/ ~DefBlockTruthy(p.definition)

\* the selections a batch run can be given: non-empty, names unique among
\* the declared agents that have one
Selections ==
    { s \in UNION { [1..n -> PayloadPool] : n \in 1..MaxSel } :
        \A i, j \in 1..Len(s) :
            (i # j /\ Truthy(s[i].name) /\ s[i].name = s[j].name) => FALSE }

----------------------------------------------------------------------------
(* Remote store *)

Digits(n) == [kind |-> "digits", n |-> n]

Version(name, version, definition, description) ==
    [name |-> name, version |-> version, definition |-> definition,
     description |-> description]

\* project_client.agents.list(): the names that have been created
agents_list(r) == SelectSeq(ListingOrder, LAMBDA n : r[n] # << >>)

list_existing_agents(r) == { n \in RemoteNames : r[n] # << >> }

\* project_client.agents.create
agents_create(r, name, definition, description) ==
    [r EXCEPT ![name] = << Version(name, Digits(1), definition, description) >>]

\* mutant: create_version replaces the latest version
agents_create_version_Replaces(r, name, definition, description) ==
    [r EXCEPT ![name] = Append(SubSeq(@, 1, Len(@) - 1),
                               Version(name, Digits(Len(@) + 1), definition, description))]

\* project_client.agents.create_version: appends version n+1
agents_create_version(r, name, definition, description) ==
    [r EXCEPT ![name] = Append(@, Version(name, Digits(Len(@) + 1), definition, description))]

RemoteDefMcp ==
    PromptAgentDefinition("prompt", "gpt-5", "old",
        SomeList(<<MCPTool("docs", "https://mcp", "conn", "search", "always"), WebSearchPreviewTool>>),
        "0.7", "0.9", "json")

RemoteDefPlain ==
    PromptAgentDefinition("prompt", "gpt-4o", None, NoneList, None, None, None)

InitialHistories(n) ==
    { << >>,
      << Version(n, Digits(1), RemoteDefMcp, "remote") >>,
      << Version(n, Digits(1), RemoteDefPlain, None) >> }

----------------------------------------------------------------------------
(* Version selector *)

\* values of the `version` attribute: a string of digits, a string "-n",
\* another string, None, an int, a value of another type
Text == [kind |-> "text", n |-> 0]

NoVersion == [kind |-> "none", n |-> 0]

IntVersion(n) == [kind |-> "int", n |-> n]

Minus(n) == [kind |-> "minus", n |-> n]

OtherType == [kind |-> "other", n |-> 0]

VersionValues ==
    { Digits(n) : n \in 0..MaxOrdinal }
        \cup { Text, NoVersion, IntVersion(1), Minus(2), OtherType }

\* int(version.version), with TypeError and ValueError turned into -1
version_key(v) ==
    IF v.version.kind \in {"digits", "int"} THEN v.version.n
    ELSE IF v.version.kind = "minus" THEN 0 - v.version.n
    ELSE -1

\* x.version.isdigit() exists for strings only
IsDigitRaises(v) == v.version.kind \in {"none", "int", "other"}

\* int(x.version) if x.version.isdigit() else 0
details_key(v) == IF v.version.kind = "digits" THEN v.version.n ELSE 0

\* max(xs, key=...): the first element whose key is maximal
PyMax(keys) ==
    CHOOSE i \in 1..Len(keys) :
        /\ \A j \in 1..Len(keys) : keys[j] <= keys[i]
        /\ \A j \in 1..(i - 1) : keys[j] < keys[i]

Pending == [status |-> "pending", index |-> 0]

Found(i) == [status |-> "found", index |-> i]

NoneFound == [status |-> "none", index |-> 0]

Raised == [status |-> "raised", index |-> 0]

\* project_client.agents.list_versions
list_versions(r, agent_name) == r[agent_name]

get_latest_agent_version(versions) ==
    IF versions = << >> THEN NoneFound
    ELSE Found(PyMax([i \in 1..Len(versions) |-> version_key(versions[i])]))

get_agent_details(version_list) ==
    IF version_list = << >> THEN NoneFound
    ELSE IF \E i \in 1..Len(version_list) : IsDigitRaises(version_list[i]) THEN Raised
    ELSE Found(PyMax([i \in 1..Len(version_list) |-> details_key(version_list[i])]))

VersionLists ==
    UNION { [1..n -> { Version("A", v, RemoteDefPlain, None) : v \in VersionValues }] :
              n \in 0..MaxList }

InitSelect ==
    /\ input \in VersionLists
    /\ remote = [n \in RemoteNames |-> IF n = "A" THEN input ELSE << >>]
    /\ latest_batch = Pending
    /\ latest_standalone = Pending
    /\ calls = << >>
    /\ pc = "select" /\ mode = "q" /\ selection = << >> /\ existing_agents = {}
    /\ remote_selection = << >>
    /\ idx = 1 /\ outcomes = << >> /\ failAt = {} /\ runs = 0
    /\ applied = << >>
    /\ parsed = NoneList

SelectBatch ==
    /\ pc = "select"
    /\ latest_batch = Pending
    /\ latest_batch' = get_latest_agent_version(list_versions(remote, "A"))
    /\ UNCHANGED <<remote, calls, mainVars, input, latest_standalone, applied, parsed>>

SelectStandalone ==
    /\ pc = "select"
    /\ latest_standalone = Pending
    /\ latest_standalone' = get_agent_details(list_versions(remote, "A"))
    /\ UNCHANGED <<remote, calls, mainVars, input, latest_batch, applied, parsed>>

NextSelect == SelectBatch \/ SelectStandalone

SpecSelect == InitSelect /\ [][NextSelect]_vars

----------------------------------------------------------------------------
(* Reconciler: process_agent *)

\* mutant: the two skip tests are attached to the wrong modes
Decision_ModesSwapped(m, p, existing) ==
    IF PayloadInvalid(p) THEN "SkippedInvalid"
    ELSE IF m = "2" /\ p.name \in existing THEN "SkippedExists"
    ELSE IF m = "1" /\ p.name \notin existing THEN "SkippedMissing"
    ELSE IF p.name \in existing THEN "create_version"
    ELSE "create"

\* the branch process_agent takes for one declared agent
Decision(m, p, existing) ==
    IF PayloadInvalid(p) THEN "SkippedInvalid"
    ELSE IF m = "1" /\ p.name \in existing THEN "SkippedExists"
    ELSE IF m = "2" /\ p.name \notin existing THEN "SkippedMissing"
    ELSE IF p.name \in existing THEN "create_version"
    ELSE "create"

\* mutant: the two success messages are exchanged
Reported_Exchanged(d) == IF d = "create" THEN "Updated"
                         ELSE IF d = "create_version" THEN "Created" ELSE d

\* what process_agent prints for the branch it took
Reported(d) == IF d = "create" THEN "Created"
               ELSE IF d = "create_version" THEN "Updated" ELSE d

IsWrite(d) == d \in {"create", "create_version"}

\* the position at which `for info in selection` stops: the first position
\* whose remote call raises, or the end of the selection
LoopStop(m, sel, existing, fails) ==
    LET bad == { i \in 1..Len(sel) : i \in fails /\ IsWrite(Decision(m, sel[i], existing)) }
    IN  IF bad = {} THEN Len(sel)
        ELSE CHOOSE i \in bad : \A j \in bad : i <= j

\* the remote write actions a batch run of main in mode m issues
RunWrites(m, sel, existing, fails) ==
    { [op |-> Decision(m, sel[i], existing), name |-> sel[i].name] :
        i \in { j \in 1..LoopStop(m, sel, existing, fails) :
                  IsWrite(Decision(m, sel[j], existing)) } }

Call(op, name, pos, ok) == [op |-> op, name |-> name, pos |-> pos, ok |-> ok]

Outcome(pos, name, result) == [pos |-> pos, name |-> name, result |-> result]


----------------------------------------------------------------------------
(* Maintenance: MCP-approval rewrite *)

\* hasattr(tool, "server_label"): the attribute exists on MCPTool objects only
HasServerLabel(tool) == tool.repr = "MCPTool"

\* mutant: any tool object that has a type counts as an MCP tool
IsMcpTool_AnyTyped(tool) == tool.repr # "dict" \/ tool.type = "mcp"

\* hasattr(tool, "server_label") or (isinstance(tool, dict) and tool.get("type") == "mcp")
IsMcpTool(tool) == HasServerLabel(tool) \/ (tool.repr = "dict" /\ tool.type = "mcp")

\* getattr(tool, name, default): a raw mapping has no such attribute
GetAttr(tool, name, default) == IF tool.repr = "MCPTool" THEN tool[name] ELSE default

\* bool(tools) of a definition that may be None
ToolsOf(definition) == IF definition.isNone THEN << >> ELSE definition.tools.items

\* find_mcp_tools of the batch script: the positions of the MCP tools
find_mcp_tools(definition) ==
    { i \in 1..Len(ToolsOf(definition)) : IsMcpTool(ToolsOf(definition)[i]) }

\* find_mcp_tools of the standalone script
find_mcp_tools_standalone(agent) ==
    { i \in 1..Len(ToolsOf(agent.definition)) : IsMcpTool(ToolsOf(agent.definition)[i]) }

Rewrite(outcome, changed, definition, description) ==
    [outcome |-> outcome, changed |-> changed, definition |-> definition,
     description |-> description]

NoRewrite(outcome) == Rewrite(outcome, FALSE, NoDefinition, None)

\* the loop body of update_mcp_tools_to_auto_approve
ApproveToolBatch(tool) ==
    IF IsMcpTool(tool)
    THEN MCPTool(GetAttr(tool, "server_label", ""), GetAttr(tool, "server_url", ""),
                 GetAttr(tool, "project_connection_id", None),
                 GetAttr(tool, "allowed_tools", None), "never")
    ELSE tool

\* mutant: the rewritten tools are appended to the current list
UpdatedToolsBatch_Appended(current_tools) ==
    current_tools \o [i \in 1..Len(current_tools) |-> ApproveToolBatch(current_tools[i])]

UpdatedToolsBatch(current_tools) ==
    [i \in 1..Len(current_tools) |-> ApproveToolBatch(current_tools[i])]

\* update_mcp_tools_to_auto_approve up to its create_version call: the
\* definition and description it publishes, or the reason it publishes nothing
update_mcp_tools_to_auto_approve(agent_details) ==
    LET definition == agent_details.definition
        current_tools == ToolsOf(definition)
        changed == \E i \in 1..Len(current_tools) : IsMcpTool(current_tools[i])
    IN  IF definition.isNone THEN NoRewrite("SkipNoDefinition")
        ELSE IF ~Truthy(definition.model) THEN NoRewrite("SkipNoModel")
        ELSE IF ~changed THEN NoRewrite("SkipNoMcp")
        ELSE Rewrite("McpUpdated", TRUE,
                     PromptAgentDefinition(definition.kind, definition.model,
                         definition.instructions,
                         OrNone(UpdatedToolsBatch(current_tools)),
                         definition.temperature, definition.top_p, definition.text),
                     agent_details.description)

process_mcp_auto_approval(r, agent_name, existing) ==
    LET versions == list_versions(r, agent_name)
        latest == get_latest_agent_version(versions)
    IN  IF ~Truthy(agent_name) THEN NoRewrite("SkipNoName")
        ELSE IF agent_name \notin existing THEN NoRewrite("SkipMissingRemotely")
        ELSE IF latest.status = "none" THEN NoRewrite("NoVersions")
        ELSE IF find_mcp_tools(versions[latest.index].definition) = {}
             THEN NoRewrite("SkipNoMcp")
        ELSE update_mcp_tools_to_auto_approve(versions[latest.index])

\* the loop body of update_agent_mcp_approval
ApproveToolStandalone(tool) ==
    IF HasServerLabel(tool)
    THEN MCPTool(tool.server_label,
                 IF tool.server_url # None THEN tool.server_url ELSE "",
                 tool.project_connection_id, tool.allowed_tools, "never")
    ELSE tool

\* update_agent_mcp_approval up to its create_version call; kind, text and
\* description are not passed to the call
update_agent_mcp_approval(agent) ==
    LET definition == agent.definition
        current_tools == ToolsOf(definition)
        updated_tools == [i \in 1..Len(current_tools) |-> ApproveToolStandalone(current_tools[i])]
        mcp_updated == \E i \in 1..Len(current_tools) : HasServerLabel(current_tools[i])
    IN  IF definition.isNone THEN NoRewrite("NoDefinition")
        ELSE IF current_tools = << >> THEN NoRewrite("NoTools")
        ELSE IF ~mcp_updated THEN NoRewrite("NoMcp")
        ELSE Rewrite("McpUpdated", TRUE,
                     PromptAgentDefinition(None,
                         IF definition.model # None THEN definition.model ELSE "",
                         definition.instructions, SomeList(updated_tools),
                         definition.temperature, definition.top_p, None),
                     None)

\* action [1] of the standalone main for the selected agent
standalone_action_1(r, agent_name, confirm) ==
    LET version_list == list_versions(r, agent_name)
        agent_details == get_agent_details(version_list)
    IN  IF agent_details.status = "none" THEN NoRewrite("NoDetails")
        ELSE IF agent_details.status = "raised" THEN NoRewrite("Raised")
        ELSE IF find_mcp_tools_standalone(version_list[agent_details.index]) = {}
             THEN NoRewrite("NoMcp")
        ELSE IF confirm # "y" THEN NoRewrite("Cancelled")
        ELSE update_agent_mcp_approval(version_list[agent_details.index])

McpToolPool ==
    { MCPTool("docs", "https://mcp", "conn", "search", "always"),
      MCPTool("docs", None, None, None, None),
      MCPTool("docs", "https://mcp", "conn", "search", "never"),
      WebSearchPreviewTool,
      RawTool("mcp", "docs", "https://mcp", None, "search", "always"),
      RawTool("other", None, None, None, None, None) }

McpToolLists ==
    { NoneList } \cup { SomeList(t) : t \in UNION { [1..n -> McpToolPool] : n \in 0..MaxTools } }

McpDefinitions ==
    { NoDefinition }
      \cup { PromptAgentDefinition("prompt", "gpt-5", "old", t, "0.7", "0.9", "json") :
                t \in McpToolLists }
      \cup { PromptAgentDefinition("prompt", "gpt-4o", None, t, None, None, None) :
                t \in McpToolLists }
      \cup { PromptAgentDefinition("prompt", None, "old", t, None, None, None) :
                t \in McpToolLists }

\* the keyword arguments of PromptAgentDefinition
DefinitionFields ==
    {"kind", "model", "instructions", "tools", "temperature", "top_p", "text"}

\* the keywords the rewrites of the standalone script pass
StandaloneKeywords == {"model", "instructions", "tools", "temperature", "top_p"}

\* the keywords the rewrites of each script pass to PromptAgentDefinition,
\* whatever their values are: nothing is filtered as build_definition does
RewriteKeywords(script) ==
    IF script = "batch" THEN DefinitionFields ELSE StandaloneKeywords

Applied(script, res, version) ==
    [script |-> script, outcome |-> res.outcome, changed |-> res.changed,
     version |-> version,
     kwargs |-> IF res.changed THEN RewriteKeywords(script) ELSE {}]

InitMcp ==
    /\ input \in { Version("A", Digits(1), d, desc) :
                      d \in McpDefinitions, desc \in {None, "remote"} }
    /\ remote = [n \in RemoteNames |-> IF n = "A" THEN << input >> ELSE << >>]
    /\ applied = << >>
    /\ parsed = NoneList
    /\ calls = << >>
    /\ latest_batch = Pending
    /\ latest_standalone = Pending
    /\ pc = "mcp" /\ mode = "4" /\ selection = << >> /\ existing_agents = {}
    /\ remote_selection = << >>
    /\ idx = 1 /\ outcomes = << >> /\ failAt = {} /\ runs = 0

\* the result of one MCP-approval operation applied to the remote store
Publish(script, res) ==
    IF res.changed
    THEN /\ remote' = agents_create_version(remote, "A", res.definition, res.description)
         /\ calls' = Append(calls, Call("create_version", "A", Len(applied) + 1, TRUE))
         /\ applied' = Append(applied, Applied(script, res, Len(remote["A"]) + 1))
    ELSE /\ applied' = Append(applied, Applied(script, res, 0))
         /\ UNCHANGED <<remote, calls>>

\* mode 4 of the batch script for agent A
McpBatch ==
    /\ pc = "mcp"
    /\ Len(applied) < MaxApply
    /\ Publish("batch", process_mcp_auto_approval(remote, "A", list_existing_agents(remote)))
    /\ UNCHANGED <<mainVars, selectVars, parsed>>

\* action [1] of the standalone script for agent A
McpStandalone ==
    /\ pc = "mcp"
    /\ Len(applied) < MaxApply
    /\ \E confirm \in {"y", "n"} :
          Publish("standalone", standalone_action_1(remote, "A", confirm))
    /\ UNCHANGED <<mainVars, selectVars, parsed>>

NextMcp == McpBatch \/ McpStandalone

SpecMcp == InitMcp /\ [][NextMcp]_vars

----------------------------------------------------------------------------
(* Maintenance: sampling-parameter strip *)

\* "gpt-5" in model_name.lower(), over the model names of this model
is_gpt5_model(model_name) == Truthy(model_name) /\ model_name \in {"gpt-5", "GPT-5-mini"}

\* mutant: the rewrite clears temperature and copies top_p
remove_temperature_params_KeepsTopP(agent_details) ==
    LET definition == agent_details.definition
        current_tools == ToolsOf(definition)
    IN  IF definition.isNone THEN NoRewrite("SkipNoDefinition")
        ELSE IF ~Truthy(definition.model) THEN NoRewrite("SkipNoModel")
        ELSE Rewrite("TemperatureRemoved", TRUE,
                     PromptAgentDefinition(definition.kind, definition.model,
                         definition.instructions, OrNone(current_tools),
                         None, definition.top_p, definition.text),
                     agent_details.description)

\* remove_temperature_params up to its create_version call
remove_temperature_params(agent_details) ==
    LET definition == agent_details.definition
        current_tools == ToolsOf(definition)
    IN  IF definition.isNone THEN NoRewrite("SkipNoDefinition")
        ELSE IF ~Truthy(definition.model) THEN NoRewrite("SkipNoModel")
        ELSE Rewrite("TemperatureRemoved", TRUE,
                     PromptAgentDefinition(definition.kind, definition.model,
                         definition.instructions, OrNone(current_tools),
                         None, None, definition.text),
                     agent_details.description)

process_temperature_removal(r, agent_name, existing) ==
    LET versions == list_versions(r, agent_name)
        latest == get_latest_agent_version(versions)
    IN  IF ~Truthy(agent_name) THEN NoRewrite("SkipNoName")
        ELSE IF agent_name \notin existing THEN NoRewrite("SkipMissingRemotely")
        ELSE IF latest.status = "none" THEN NoRewrite("NoVersions")
        ELSE remove_temperature_params(versions[latest.index])

\* the agents prompt_remote_agent_selection offers: all of them, or those
\* whose latest version has a GPT-5 model
OfferedAgents(r, filter_gpt5_only) ==
    IF ~filter_gpt5_only THEN agents_list(r)
    ELSE SelectSeq(agents_list(r),
                   LAMBDA n :
                     LET latest == get_latest_agent_version(list_versions(r, n))
                     IN  /\ latest.status = "found"
                         /\ ~r[n][latest.index].definition.isNone
                         /\ is_gpt5_model(r[n][latest.index].definition.model))

\* the non-empty selections of the offered agents, in the offered order
RemoteSelections(agents) ==
    { SelectSeq(agents, LAMBDA n : n \in chosen) :
        chosen \in (SUBSET { agents[i] : i \in 1..Len(agents) }) \ {{}} }

\* remove_temperature_for_gpt5 up to its create_version call; the model is
\* passed as it is read, and kind, text and description are not passed
remove_temperature_for_gpt5(agent) ==
    LET definition == agent.definition
        current_tools == ToolsOf(definition)
    IN  IF definition.isNone THEN NoRewrite("NoDefinition")
        ELSE Rewrite("TemperatureRemoved", TRUE,
                     PromptAgentDefinition(None, definition.model,
                         definition.instructions, OrNone(current_tools),
                         None, None, None),
                     None)

\* action [2] of the standalone main for the selected agent: the warning for
\* a model that is not GPT-5 can be overridden, and an agent that has neither
\* temperature nor top_p is left alone
standalone_action_2(r, agent_name, force, confirm) ==
    LET version_list == list_versions(r, agent_name)
        agent_details == get_agent_details(version_list)
        definition == version_list[agent_details.index].definition
        model_name == IF definition.isNone THEN "" ELSE definition.model
        current_temp == IF definition.isNone THEN None ELSE definition.temperature
        current_top_p == IF definition.isNone THEN None ELSE definition.top_p
    IN  IF agent_details.status = "none" THEN NoRewrite("NoDetails")
        ELSE IF agent_details.status = "raised" THEN NoRewrite("Raised")
        ELSE IF ~is_gpt5_model(model_name) /\ force # "y" THEN NoRewrite("Cancelled")
        ELSE IF current_temp = None /\ current_top_p = None
             THEN NoRewrite("AlreadyAbsent")
        ELSE IF confirm # "y" THEN NoRewrite("Cancelled")
        ELSE remove_temperature_for_gpt5(version_list[agent_details.index])

StripToolPool ==
    { MCPTool("docs", "https://mcp", "conn", "search", "always"),
      WebSearchPreviewTool,
      RawTool("mcp", "docs", "https://mcp", None, "search", "always") }

StripToolLists ==
    { NoneList } \cup { SomeList(t) : t \in UNION { [1..n -> StripToolPool] : n \in 0..MaxTools } }

\* remote definitions with and without sampling parameters, for a GPT-5
\* model, another model and no model
StripDefinitions ==
    { NoDefinition }
      \cup { PromptAgentDefinition("prompt", m, "old", t, s[1], s[2], "json") :
                m \in {"gpt-5", "gpt-4o", None}, t \in StripToolLists,
                s \in { <<"0.7", "0.9">>, <<"0.7", None>>, <<None, None>> } }
      \cup { PromptAgentDefinition(None, m, None, t, None, "0.9", None) :
                m \in {"gpt-5", "gpt-4o"}, t \in StripToolLists }

InitStrip ==
    /\ input \in { Version("A", Digits(1), d, desc) :
                      d \in StripDefinitions, desc \in {None, "remote"} }
    /\ remote = [n \in RemoteNames |-> IF n = "A" THEN << input >> ELSE << >>]
    /\ applied = << >>
    /\ parsed = NoneList
    /\ calls = << >>
    /\ latest_batch = Pending
    /\ latest_standalone = Pending
    /\ pc = "strip" /\ mode = "5" /\ selection = << >> /\ existing_agents = {}
    /\ remote_selection = << >>
    /\ idx = 1 /\ outcomes = << >> /\ failAt = {} /\ runs = 0

\* process_temperature_removal of the batch script for agent A
StripBatch ==
    /\ pc = "strip"
    /\ Len(applied) < MaxApply
    /\ Publish("batch", process_temperature_removal(remote, "A", list_existing_agents(remote)))
    /\ UNCHANGED <<mainVars, selectVars, parsed>>

\* action [2] of the standalone script for agent A
StripStandalone ==
    /\ pc = "strip"
    /\ Len(applied) < MaxApply
    /\ \E force \in {"y", "n"}, confirm \in {"y", "n"} :
          Publish("standalone", standalone_action_2(remote, "A", force, confirm))
    /\ UNCHANGED <<mainVars, selectVars, parsed>>

NextStrip == StripBatch \/ StripStandalone

SpecStrip == InitStrip /\ [][NextStrip]_vars

----------------------------------------------------------------------------
(* Selection parser: parse_selection_indices *)

\* A text is a sequence of one-character strings.
MaxLen == 4

MaxIndex == 3

DecimalDigits == <<"0", "1", "2", "3", "4", "5", "6", "7", "8", "9">>

IsDigit(c) == \E d \in 1..Len(DecimalDigits) : DecimalDigits[d] = c

DigitValue(c) == (CHOOSE d \in 1..Len(DecimalDigits) : DecimalDigits[d] = c) - 1

\* str.strip() over texts whose only whitespace is the blank
RECURSIVE LStrip(_)
LStrip(s) == IF s # << >> /\ Head(s) = " " THEN LStrip(Tail(s)) ELSE s

RECURSIVE RStrip(_)
RStrip(s) == IF s # << >> /\ s[Len(s)] = " " THEN RStrip(SubSeq(s, 1, Len(s) - 1)) ELSE s

Strip(s) == RStrip(LStrip(s))

\* c in s
Contains(s, c) == \E i \in 1..Len(s) : s[i] = c

\* the position of the first c in s
FirstOf(s, c) == CHOOSE i \in 1..Len(s) : s[i] = c /\ \A j \in 1..(i - 1) : s[j] # c

\* s.split(sep)
RECURSIVE Split(_, _)
Split(s, sep) ==
    IF ~Contains(s, sep) THEN << s >>
    ELSE << SubSeq(s, 1, FirstOf(s, sep) - 1) >>
            \o Split(SubSeq(s, FirstOf(s, sep) + 1, Len(s)), sep)

\* s.split(sep, 1)
SplitOnce(s, sep) ==
    IF ~Contains(s, sep) THEN << s >>
    ELSE << SubSeq(s, 1, FirstOf(s, sep) - 1), SubSeq(s, FirstOf(s, sep) + 1, Len(s)) >>

RECURSIVE DigitsValue(_)
DigitsValue(s) ==
    IF s = << >> THEN 0
    ELSE 10 * DigitsValue(SubSeq(s, 1, Len(s) - 1)) + DigitValue(s[Len(s)])

ValueError == [ok |-> FALSE, value |-> 0]

\* int(s) over the characters of this model: surrounding blanks are ignored,
\* one leading "-" is a sign, the rest must be a non-empty run of digits
PyInt(s) ==
    LET t == Strip(s)
        negative == t # << >> /\ Head(t) = "-"
        body == IF negative THEN Tail(t) ELSE t
    IN  IF body = << >> \/ \E i \in 1..Len(body) : ~IsDigit(body[i]) THEN ValueError
        ELSE [ok |-> TRUE,
              value |-> IF negative THEN 0 - DigitsValue(body) ELSE DigitsValue(body)]

Failure == [ok |-> FALSE, items |-> << >>]

Indices(items) == [ok |-> TRUE, items |-> items]

\* mutant: the end of a range is left out
PartIndices_EndExcluded(part) ==
    IF Contains(part, "-")
    THEN LET range_parts == SplitOnce(part, "-")
             start == PyInt(Strip(range_parts[1]))
             end == PyInt(Strip(range_parts[2]))
         IN  IF Len(range_parts) # 2 THEN Failure
             ELSE IF ~start.ok \/ ~end.ok THEN Failure
             ELSE IF start.value > end.value THEN Failure
             ELSE Indices([i \in 1..(end.value - start.value) |-> start.value + i - 1])
    ELSE IF ~PyInt(part).ok THEN Failure
         ELSE Indices(<< PyInt(part).value >>)

\* the body of the for loop: the indices one part adds, or the return of None
PartIndices(part) ==
    IF Contains(part, "-")
    THEN LET range_parts == SplitOnce(part, "-")
             start == PyInt(Strip(range_parts[1]))
             end == PyInt(Strip(range_parts[2]))
         IN  IF Len(range_parts) # 2 THEN Failure
             ELSE IF ~start.ok \/ ~end.ok THEN Failure
             ELSE IF start.value > end.value THEN Failure
             ELSE Indices([i \in 1..(end.value - start.value + 1) |-> start.value + i - 1])
    ELSE IF ~PyInt(part).ok THEN Failure
         ELSE Indices(<< PyInt(part).value >>)

\* the for loop over the parts: it stops at the first part that fails
RECURSIVE Collect(_)
Collect(parts) ==
    IF parts = << >> THEN Indices(<< >>)
    ELSE IF ~PartIndices(Head(parts)).ok THEN Failure
    ELSE IF ~Collect(Tail(parts)).ok THEN Failure
    ELSE Indices(PartIndices(Head(parts)).items \o Collect(Tail(parts)).items)

\* sorted(set(xs))
RECURSIVE Sorted(_)
Sorted(S) ==
    IF S = {} THEN << >>
    ELSE LET least == CHOOSE x \in S : \A y \in S : x <= y
         IN  << least >> \o Sorted(S \ {least})

\* mutant: only the lower end of the result is validated
parse_selection_indices_LowerOnly(choice, max_index) ==
    LET pieces == Split(choice, ",")
        parts == SelectSeq([i \in 1..Len(pieces) |-> Strip(pieces[i])],
                           LAMBDA c : c # << >>)
        collected == Collect(parts)
        indices == Sorted({ collected.items[i] : i \in 1..Len(collected.items) })
    IN  IF ~collected.ok THEN NoneList
        ELSE IF indices # << >> /\ indices[1] < 1 THEN NoneList
        ELSE SomeList(indices)

\* parse_selection_indices: None, or the sorted list of the selected indices
parse_selection_indices(choice, max_index) ==
    LET pieces == Split(choice, ",")
        parts == SelectSeq([i \in 1..Len(pieces) |-> Strip(pieces[i])],
                           LAMBDA c : c # << >>)
        collected == Collect(parts)
        indices == Sorted({ collected.items[i] : i \in 1..Len(collected.items) })
    IN  IF ~collected.ok THEN NoneList
        ELSE IF indices # << >> /\ (indices[1] < 1 \/ indices[Len(indices)] > max_index)
             THEN NoneList
        ELSE SomeList(indices)

\* the characters an operator can type that the parser tells apart
Alphabet == {"0", "1", "2", "3", ",", "-", " ", "x"}

Selection(choice, max_index) == [choice |-> choice, max_index |-> max_index]

\* the examples of the docstring and of the prompt, with a list of ten agents
ExampleSelections ==
    { Selection(<<"1", "-", "3", ",", "5", ",", "7", "-", "9">>, 10),
      Selection(<<"1", "-", "6">>, 10),
      Selection(<<"1", ",", "3", ",", "5">>, 10),
      Selection(<<"5", "-", "2">>, 10),
      Selection(<<"2", ",", "2", ",", "1">>, 3),
      Selection(<<"1", "2">>, 10) }

InitParse ==
    /\ input \in { Selection(c, m) :
                      c \in UNION { [1..n -> Alphabet] : n \in 0..MaxLen },
                      m \in 1..MaxIndex } \cup ExampleSelections
    /\ parsed = NoneList
    /\ remote = [n \in RemoteNames |-> << >>]
    /\ applied = << >>
    /\ calls = << >>
    /\ latest_batch = Pending
    /\ latest_standalone = Pending
    /\ pc = "parse" /\ mode = "q" /\ selection = << >> /\ existing_agents = {}
    /\ remote_selection = << >>
    /\ idx = 1 /\ outcomes = << >> /\ failAt = {} /\ runs = 0

\* prompt_agent_selection and prompt_remote_agent_selection hand the text
\* that is neither "q" nor "a" to parse_selection_indices
ParseSelection ==
    /\ pc = "parse"
    /\ parsed' = parse_selection_indices(input.choice, input.max_index)
    /\ pc' = "parsed"
    /\ UNCHANGED <<remote, calls, mode, selection, remote_selection, existing_agents,
                   idx, outcomes, failAt, runs, selectVars, applied>>

NextParse == ParseSelection

SpecParse == InitParse /\ [][NextParse]_vars

----------------------------------------------------------------------------
(* main of the batch script *)

Init ==
    /\ remote \in { r \in [RemoteNames -> UNION { InitialHistories(n) : n \in RemoteNames }] :
                      \A n \in RemoteNames : r[n] \in InitialHistories(n) }
    /\ pc = "prompt"
    /\ mode = "q"
    /\ selection = << >>
    /\ remote_selection = << >>
    /\ existing_agents = {}
    /\ idx = 1
    /\ calls = << >>
    /\ outcomes = << >>
    /\ failAt = {}
    /\ runs = 0
    /\ input = << >>
    /\ latest_batch = Pending
    /\ latest_standalone = Pending
    /\ applied = << >>
    /\ parsed = NoneList

\* main: prompt_mode gives 1, 2 or 3; the agents are selected and the remote
\* index is fetched once, before the loop
StartBatch ==
    /\ pc = "prompt"
    /\ runs < MaxRuns
    /\ \E m \in {"1", "2", "3"}, s \in Selections :
         /\ mode' = m
         /\ selection' = s
         /\ \E f \in SUBSET (1..Len(s)) : failAt' = f
    /\ existing_agents' = list_existing_agents(remote)
    /\ idx' = 1
    /\ calls' = << >>
    /\ outcomes' = << >>
    /\ runs' = runs + 1
    /\ pc' = "batch"
    /\ UNCHANGED <<remote, remote_selection, selectVars, applied, parsed>>

\* main: prompt_mode gives 4 or 5; remote agents are selected (main returns
\* when none is offered) and the remote index is fetched before the loop
StartMaintenance ==
    /\ pc = "prompt"
    /\ runs < MaxRuns
    /\ \E m \in {"4", "5"} :
         /\ mode' = m
         /\ IF OfferedAgents(remote, m = "5") = << >>
            THEN /\ pc' = "done"
                 /\ remote_selection' = << >>
                 /\ failAt' = {}
            ELSE /\ pc' = "maintenance"
                 /\ \E s \in RemoteSelections(OfferedAgents(remote, m = "5")) :
                      /\ remote_selection' = s
                      /\ \E f \in SUBSET (1..Len(s)) : failAt' = f
    /\ existing_agents' = list_existing_agents(remote)
    /\ idx' = 1
    /\ calls' = << >>
    /\ outcomes' = << >>
    /\ runs' = runs + 1
    /\ UNCHANGED <<remote, selection, selectVars, applied, parsed>>

\* one iteration of `for info in selection: process_agent(...)`; an exception
\* of the remote call leaves process_agent, the loop and main
ProcessAgent ==
    /\ pc = "batch"
    /\ idx <= Len(selection)
    /\ LET p == selection[idx]
           d == Decision(mode, p, existing_agents)
           definition == build_definition(p.definition)
           description == PyOr(p.description, p.metadata_description)
       IN  IF ~IsWrite(d)
           THEN /\ outcomes' = Append(outcomes, Outcome(idx, p.name, d))
                /\ idx' = idx + 1
                /\ UNCHANGED <<remote, calls, pc>>
           ELSE IF idx \in failAt
           THEN /\ calls' = Append(calls, Call(d, p.name, idx, FALSE))
                /\ pc' = "crashed"
                /\ UNCHANGED <<remote, outcomes, idx>>
           ELSE /\ remote' = IF d = "create"
                             THEN agents_create(remote, p.name, definition, description)
                             ELSE agents_create_version(remote, p.name, definition, description)
                /\ calls' = Append(calls, Call(d, p.name, idx, TRUE))
                /\ outcomes' = Append(outcomes, Outcome(idx, p.name, Reported(d)))
                /\ idx' = idx + 1
                /\ UNCHANGED pc
    /\ UNCHANGED <<mode, selection, remote_selection, existing_agents, failAt, runs,
                   selectVars, applied, parsed>>

\* one iteration of the maintenance loop: process_mcp_auto_approval in mode 4,
\* process_temperature_removal in mode 5; an exception of create_version
\* leaves the loop and main
ProcessMaintenance ==
    /\ pc = "maintenance"
    /\ idx <= Len(remote_selection)
    /\ LET agent_name == remote_selection[idx]
           res == IF mode = "4"
                  THEN process_mcp_auto_approval(remote, agent_name, existing_agents)
                  ELSE process_temperature_removal(remote, agent_name, existing_agents)
       IN  IF ~res.changed
           THEN /\ outcomes' = Append(outcomes, Outcome(idx, agent_name, res.outcome))
                /\ idx' = idx + 1
                /\ UNCHANGED <<remote, calls, pc>>
           ELSE IF idx \in failAt
           THEN /\ calls' = Append(calls, Call("create_version", agent_name, idx, FALSE))
                /\ pc' = "crashed"
                /\ UNCHANGED <<remote, outcomes, idx>>
           ELSE /\ remote' = agents_create_version(remote, agent_name, res.definition,
                                                   res.description)
                /\ calls' = Append(calls, Call("create_version", agent_name, idx, TRUE))
                /\ outcomes' = Append(outcomes, Outcome(idx, agent_name, res.outcome))
                /\ idx' = idx + 1
                /\ UNCHANGED pc
    /\ UNCHANGED <<mode, selection, remote_selection, existing_agents, failAt, runs,
                   selectVars, applied, parsed>>

\* the loop is over: "Run another operation? (y/n)"; on "y" main starts over
\* with a fresh mode and selection, and nothing of the finished run is read again
RunAnother ==
    /\ \/ pc = "batch" /\ idx > Len(selection)
       \/ pc = "maintenance" /\ idx > Len(remote_selection)
    /\ \E again \in {"y", "n"} :
         IF again = "y"
         THEN /\ pc' = "prompt"
              /\ mode' = "q"
              /\ selection' = << >>
              /\ remote_selection' = << >>
              /\ existing_agents' = {}
              /\ idx' = 1
              /\ calls' = << >>
              /\ outcomes' = << >>
              /\ failAt' = {}
         ELSE /\ pc' = "done"
              /\ UNCHANGED <<mode, selection, remote_selection, existing_agents, idx,
                             calls, outcomes, failAt>>
    /\ UNCHANGED <<remote, runs, selectVars, applied, parsed>>

\* prompt_mode returns "q"
Quit ==
    /\ pc = "prompt"
    /\ pc' = "done"
    /\ mode' = "q"
    /\ UNCHANGED <<remote, selection, remote_selection, existing_agents, idx, calls,
                   outcomes, failAt, runs, selectVars, applied, parsed>>

Next == StartBatch \/ StartMaintenance \/ ProcessAgent \/ ProcessMaintenance
            \/ RunAnother \/ Quit

Spec == Init /\ [][Next]_vars

----------------------------------------------------------------------------
(* Properties of the reconciler (Spec) *)

\* the declared agent lacks a name or a definition (absent or empty)
MissingField(p) ==
    \/ p.name = None \/ p.name = ""
    \/ p.definition.isNone
    \/ p.definition = DefBlock(None, None, None, NoneList, None, None, None)

\* the for loop of the batch run has ended, normally or by an exception
RunOver == \/ pc = "crashed"
           \/ selection # << >> /\ idx > Len(selection)

\* position i of the selection has been given to process_agent
Handled(i) == i < idx \/ (pc = "crashed" /\ i = idx)

IssuedAt(i) == { calls[k].op : k \in { j \in 1..Len(calls) : calls[j].pos = i } }

ReportedAt(i) == { outcomes[k].result : k \in { j \in 1..Len(outcomes) : outcomes[j].pos = i } }

WritesOf(cs) == { [op |-> cs[k].op, name |-> cs[k].name] : k \in 1..Len(cs) }

\* C1: a CreateMissing run (mode "1") never issues create_version and an
\* UpdateExisting run (mode "2") never issues create; in mode 1 a declared
\* agent present in the index is skipped and an absent one gets a create
\* call, in mode 2 an absent one is skipped and a present one gets a
\* create_version call.
C1_ModesNeverCross ==
    /\ mode = "1" => \A k \in 1..Len(calls) : calls[k].op = "create"
    /\ mode = "2" => \A k \in 1..Len(calls) : calls[k].op = "create_version"
    /\ \A i \in 1..Len(selection) :
          (Handled(i) /\ ~MissingField(selection[i])) =>
             LET present == selection[i].name \in existing_agents
             IN  /\ (mode = "1" /\ present) =>
                        IssuedAt(i) = {} /\ ReportedAt(i) = {"SkippedExists"}
                 /\ (mode = "1" /\ ~present) => IssuedAt(i) = {"create"}
                 /\ (mode = "2" /\ ~present) =>
                        IssuedAt(i) = {} /\ ReportedAt(i) = {"SkippedMissing"}
                 /\ (mode = "2" /\ present) => IssuedAt(i) = {"create_version"}

C1_Witness ==
    /\ mode = "1" /\ RunOver /\ Len(selection) = 2
    /\ ReportedAt(1) = {"SkippedExists"} /\ IssuedAt(2) = {"create"}

\* C2: when a Sync run (mode "3") is over, the set of remote write actions it
\* issued is the union of those a CreateMissing run and an UpdateExisting run
\* issue on the same selection, the same snapshot and the same remote.
C2_SyncIsUnion ==
    (RunOver /\ mode = "3") =>
        WritesOf(calls) = RunWrites("1", selection, existing_agents, failAt)
                            \cup RunWrites("2", selection, existing_agents, failAt)

\* C3: a failed remote call does not abort the run: when the run is over,
\* every selected agent has been processed.
C3_FailureIsolated ==
    RunOver => \A i \in 1..Len(selection) : Handled(i)

C5_InputOrder ==
    /\ pc \in {"batch", "crashed", "done"} /\ mode \in {"1", "2", "3"} =>
          /\ \A k \in 1..Len(outcomes) :
                outcomes[k].pos = k /\ outcomes[k].name = selection[k].name
          /\ \A k \in 1..Len(calls) :
                /\ calls[k].name = selection[calls[k].pos].name
                /\ k > 1 => calls[k - 1].pos < calls[k].pos
          /\ Len(outcomes) = idx - 1
    /\ ( /\ mode = "3" /\ Len(selection) = 2 /\ idx > 2
         /\ ~MissingField(selection[1]) /\ ~MissingField(selection[2])
         /\ selection[1].name \notin existing_agents
         /\ selection[2].name \in existing_agents )
        => /\ outcomes = << Outcome(1, selection[1].name, "Created"),
                            Outcome(2, selection[2].name, "Updated") >>
           /\ calls = << Call("create", selection[1].name, 1, TRUE),
                         Call("create_version", selection[2].name, 2, TRUE) >>

C5_Witness ==
    /\ mode = "3"
    /\ outcomes = << Outcome(1, "A", "Created"), Outcome(2, "B", "Updated") >>

\* history `after` is history `before` with `more` versions added at its end
Extends(before, after, more) ==
    /\ Len(after) = Len(before) + more
    /\ \A k \in 1..Len(before) : after[k] = before[k]

\* C15: version histories are append-only: no step of any run (create,
\* update, MCP-approval rewrite, sampling strip) changes or removes a
\* published version; a step whose remote call succeeds adds exactly one
\* version to the agent it names and none to another agent, and every other
\* step leaves all histories as they are.
C15_AppendOnly ==
    [][ IF Len(calls') = Len(calls) + 1 /\ calls'[Len(calls')].ok
        THEN \A n \in RemoteNames :
                Extends(remote[n], remote'[n],
                        IF n = calls'[Len(calls')].name THEN 1 ELSE 0)
        ELSE \A n \in RemoteNames : Extends(remote[n], remote'[n], 0) ]_vars

C15_Witness ==
    /\ pc = "maintenance" /\ idx > Len(remote_selection)
    /\ Len(calls) = 2
    /\ Len(remote["A"]) = 2 /\ Len(remote["B"]) = 3

----------------------------------------------------------------------------
(* Properties of the version selector (SpecSelect) *)

\* the version attribute denotes a non-negative integer
HasOrdinal(v) == v.version.kind \in {"digits", "int"}

\* entry i is among the entries of greatest ordinal of the list
Greatest(list, i) ==
    \A j \in 1..Len(list) :
        HasOrdinal(list[j]) =>
            HasOrdinal(list[i]) /\ list[j].version.n <= list[i].version.n

SelectorResults == {latest_batch, latest_standalone}

\* C6: each selector returns an entry of the list whose ordinal is the
\* greatest of the list, returns None exactly for the empty list, and writes
\* nothing to the remote store.
C6_SelectsGreatest ==
    /\ \A r \in SelectorResults :
          r.status \in {"none", "found"} =>
             /\ r.status = "none" <=> input = << >>
             /\ r.status = "found" =>
                    r.index \in 1..Len(input) /\ Greatest(input, r.index)
    /\ pc = "select" => (remote["A"] = input /\ calls = << >>)

\* C7: a version whose ordinal is no non-negative integer (absent, non-numeric
\* text, another type) is ranked -1: it never makes a selector fail and it is
\* not selected when the list has an entry with an ordinal.
C7_UnparseableLoses ==
    /\ \A r \in SelectorResults :
          /\ r.status # "raised"
          /\ (r.status = "found" /\ \E j \in 1..Len(input) : HasOrdinal(input[j]))
                => HasOrdinal(input[r.index])

\* C17: get_latest_agent_version and get_agent_details select the same
\* version of every version list, lists with ordinal 0 and with entries
\* whose ordinal cannot be parsed included.
C17_SelectorsAgree ==
    (latest_batch # Pending /\ latest_standalone # Pending) =>
        latest_batch = latest_standalone

----------------------------------------------------------------------------
(* Properties of the MCP-approval rewrite (SpecMcp) *)

\* the tool is an object carrying server_label or a raw mapping of type "mcp"
RecognisedMcp(tool) ==
    tool.repr = "MCPTool" \/ (tool.repr = "dict" /\ tool.type = "mcp")

\* the applications that published a version
Published == { k \in 1..Len(applied) : applied[k].version # 0 }

\* the tools of the version application k read and of the version it published
ToolsBefore(k) ==
    IF remote["A"][applied[k].version - 1].definition.isNone THEN << >>
    ELSE remote["A"][applied[k].version - 1].definition.tools.items

ToolsAfter(k) == remote["A"][applied[k].version].definition.tools.items

\* C8: the published tool sequence has the length and order of the input;
\* every tool recognised as MCP is replaced by an MCP tool with approval
\* "never" and the server_label, server_url, connection and allowed_tools of
\* the input tool; every other tool is the input tool.
C8_RewritePreservesTools ==
    \A k \in Published :
        /\ Len(ToolsAfter(k)) = Len(ToolsBefore(k))
        /\ \A i \in 1..Len(ToolsBefore(k)) :
              LET t == ToolsBefore(k)[i]
              IN  IF RecognisedMcp(t)
                  THEN ToolsAfter(k)[i] = [ repr |-> "MCPTool", type |-> "mcp",
                                            server_label |-> t.server_label,
                                            server_url |-> t.server_url,
                                            project_connection_id |-> t.project_connection_id,
                                            allowed_tools |-> t.allowed_tools,
                                            require_approval |-> "never" ]
                  ELSE ToolsAfter(k)[i] = t

\* the version has no MCP tool (tools absent or empty included)
NoMcpIn(version) ==
    \/ version.definition.isNone
    \/ \A i \in 1..Len(version.definition.tools.items) :
          ~RecognisedMcp(version.definition.tools.items[i])

\* C9: when the latest version has no MCP tool, the MCP-approval operation
\* leaves the changed flag false, issues no create_version call and leaves
\* the version history as it was.
C9_NoMcpNoVersion ==
    (pc = "mcp" /\ NoMcpIn(input)) =>
        /\ remote["A"] = << input >>
        /\ calls = << >>
        /\ \A k \in 1..Len(applied) : ~applied[k].changed /\ applied[k].version = 0

C9_Witness ==
    /\ pc = "mcp" /\ NoMcpIn(input)
    /\ ~input.definition.isNone
    /\ input.definition.model = "gpt-5"
    /\ Len(input.definition.tools.items) = 2
    /\ Len(applied) = 2
    /\ applied[1].script = "batch" /\ applied[2].script = "standalone"

\* C10: the rewrite applied to the definition it produced publishes a
\* definition equal to the one of the first application.
C10_Idempotent ==
    \A k \in 1..(Len(applied) - 1) :
        (k \in Published /\ applied[k + 1].script = applied[k].script
           /\ applied[k + 1].outcome # "Cancelled") =>
            /\ k + 1 \in Published
            /\ remote["A"][applied[k + 1].version].definition
                  = remote["A"][applied[k].version].definition

C10_Witness ==
    /\ Published = {1, 2}
    /\ applied[1].script = "batch" /\ applied[2].script = "batch"
    /\ input.definition.tools.items # remote["A"][2].definition.tools.items
    /\ remote["A"][3].definition = remote["A"][2].definition

----------------------------------------------------------------------------
(* Properties of the sampling-parameter strip (SpecStrip) *)

\* the applications in which the rewrite itself was run: its caller found a
\* latest version and did not stop before calling it
StripRan ==
    { k \in 1..Len(applied) :
        applied[k].outcome \in {"TemperatureRemoved", "SkipNoDefinition", "SkipNoModel",
                                 "NoDefinition"} }

\* the version application k read: the latest one at that time
ReadBy(k) ==
    remote["A"][1 + Cardinality({ j \in 1..(k - 1) : applied[j].version # 0 })]

\* application k published a definition without temperature and without
\* top_p whose tools are the tools of the version it read
StrippedBy(k) ==
    /\ applied[k].version # 0
    /\ remote["A"][applied[k].version].definition.temperature = None
    /\ remote["A"][applied[k].version].definition.top_p = None
    /\ remote["A"][applied[k].version].definition.tools.items
          = ReadBy(k).definition.tools.items

\* C11 as stated: run on a version that has a definition, the sampling-strip
\* rewrite publishes a definition with temperature and top_p absent and with
\* the tool sequence of the input, whatever its model is.
C11_StripEveryDefinition ==
    \A k \in StripRan : ~ReadBy(k).definition.isNone => StrippedBy(k)

\* C11 amended: run on a version that has a definition and a non-empty
\* model, the sampling-strip rewrite publishes a definition with temperature
\* and top_p absent and with the tool sequence of the input, whatever the
\* model identifier and the current sampling values are.
C11_StripWithModel ==
    \A k \in StripRan :
        (~ReadBy(k).definition.isNone /\ ReadBy(k).definition.model \notin {None, ""})
            => StrippedBy(k)

C11_Witness ==
    /\ pc = "strip"
    /\ input.definition.model = "gpt-4o"
    /\ input.definition.temperature = "0.7" /\ input.definition.top_p = "0.9"
    /\ Len(input.definition.tools.items) = 2
    /\ Len(applied) = 2
    /\ applied[1].script = "standalone" /\ applied[2].script = "batch"
    /\ StrippedBy(1) /\ StrippedBy(2)

\* C12: the version published by the MCP-approval rewrite or by the sampling
\* strip has the kind, model, instructions, response format and description
\* of the version it was derived from, and after the MCP-approval rewrite
\* also its temperature and top_p.
C12_RewriteCopiesFields ==
    \A k \in Published :
        LET old == remote["A"][applied[k].version - 1]
            new == remote["A"][applied[k].version]
        IN  /\ new.definition.kind = old.definition.kind
            /\ new.definition.model = old.definition.model
            /\ new.definition.instructions = old.definition.instructions
            /\ new.definition.text = old.definition.text
            /\ new.description = old.description
            /\ applied[k].outcome = "McpUpdated" =>
                   /\ new.definition.temperature = old.definition.temperature
                   /\ new.definition.top_p = old.definition.top_p

\* the MCP tools find_mcp_tools of the script of application k reports for
\* the version the application read
FoundBy(k) ==
    IF applied[k].script = "batch" THEN find_mcp_tools(ReadBy(k).definition)
    ELSE find_mcp_tools_standalone(ReadBy(k))

\* C18: in both scripts, for a version that has a model, find_mcp_tools
\* reports an MCP tool exactly when the MCP-approval update (not cancelled at
\* the prompt) sets its changed flag and publishes a new version.
C18_DetectionMatchesRewrite ==
    \A k \in 1..Len(applied) :
        ( /\ applied[k].outcome # "Cancelled"
          /\ ~ReadBy(k).definition.isNone
          /\ ReadBy(k).definition.model \notin {None, ""} )
            => (FoundBy(k) # {} <=> (applied[k].changed /\ applied[k].version # 0))

----------------------------------------------------------------------------
(* Properties of the selection parser (SpecParse) *)

\* s without its leading and trailing blanks
Trimmed(s) ==
    LET inked == { i \in 1..Len(s) : s[i] # " " }
    IN  IF inked = {} THEN << >>
        ELSE SubSeq(s, CHOOSE a \in inked : \A i \in inked : a <= i,
                       CHOOSE b \in inked : \A i \in inked : i <= b)

\* the tokens of the text: its maximal comma-free pieces, trimmed, the empty
\* ones dropped
Tokens(text) ==
    { Trimmed(SubSeq(text, a, b)) :
        <<a, b>> \in { ab \in (1..(Len(text) + 1)) \X (0..Len(text)) :
                         /\ ab[2] >= ab[1] - 1
                         /\ ab[1] = 1 \/ text[ab[1] - 1] = ","
                         /\ ab[2] = Len(text) \/ text[ab[2] + 1] = ","
                         /\ \A i \in ab[1]..ab[2] : text[i] # "," } } \ { << >> }

\* the token is a bare integer: digits only
Numeral(t) == t # << >> /\ \A i \in 1..Len(t) : IsDigit(t[i])

\* the token is a range A-B: the pairs <<A, B>> it can be read as
RangeEnds(t) ==
    { << DigitsValue(Trimmed(SubSeq(t, 1, d - 1))),
         DigitsValue(Trimmed(SubSeq(t, d + 1, Len(t)))) >> :
        d \in { d \in 1..Len(t) : /\ t[d] = "-"
                                  /\ Numeral(Trimmed(SubSeq(t, 1, d - 1)))
                                  /\ Numeral(Trimmed(SubSeq(t, d + 1, Len(t)))) } }

\* the integers the token denotes: N for a bare integer, A..B for a range
Denoted(t) ==
    IF Numeral(t) THEN { DigitsValue(t) }
    ELSE UNION { ends[1]..ends[2] : ends \in RangeEnds(t) }

\* the token is an integer or a range of two integers in ascending order,
\* and all it denotes lies in 1..max_index
ValidToken(t, max_index) ==
    /\ Numeral(t) \/ \E ends \in RangeEnds(t) : ends[1] <= ends[2]
    /\ Denoted(t) \subseteq 1..max_index

\* C13: parse_selection_indices returns a failure or a list; a list is
\* strictly ascending, holds exactly the integers its tokens denote, all of
\* them in 1..max_index; a text that is empty after trimming gives the empty
\* list; "1-3,5,7-9" with bound 10 gives 1,2,3,5,7,8,9 and "2,2,1" with
\* bound 3 gives 1,2.
C13_ParsesSelection ==
    pc = "parsed" =>
        /\ ~parsed.isNone =>
              /\ \A i \in 1..(Len(parsed.items) - 1) : parsed.items[i] < parsed.items[i + 1]
              /\ { parsed.items[i] : i \in 1..Len(parsed.items) }
                    = UNION { Denoted(t) : t \in Tokens(input.choice) }
              /\ \A i \in 1..Len(parsed.items) : parsed.items[i] \in 1..input.max_index
        /\ Trimmed(input.choice) = << >> => parsed = SomeList(<< >>)
        /\ input = Selection(<<"1", "-", "3", ",", "5", ",", "7", "-", "9">>, 10)
              => parsed = SomeList(<<1, 2, 3, 5, 7, 8, 9>>)
        /\ input = Selection(<<"2", ",", "2", ",", "1">>, 3)
              => parsed = SomeList(<<1, 2>>)

C13_Witness ==
    /\ pc = "parsed"
    /\ input = Selection(<<"1", "-", "3", ",", "5", ",", "7", "-", "9">>, 10)
    /\ parsed = SomeList(<<1, 2, 3, 5, 7, 8, 9>>)

\* C14: when one token is invalid (no integer, no range of two integers, a
\* range with start > end, an index below 1 or above max_index) the parser
\* returns None, whatever the other tokens are.
C14_InvalidTokenFailsAll ==
    pc = "parsed" =>
        ( (\E t \in Tokens(input.choice) : ~ValidToken(t, input.max_index))
            => parsed.isNone )

C14_Witness ==
    /\ pc = "parsed"
    /\ parsed.isNone
    /\ \E t, u \in Tokens(input.choice) :
          ValidToken(t, input.max_index) /\ ~ValidToken(u, input.max_index)

----------------------------------------------------------------------------
(* Properties of the fields sent by the rewrites (SpecMcp, SpecStrip) *)

\* field f of the definition is absent
AbsentIn(f, definition) ==
    IF f = "tools" THEN definition.tools.isNone ELSE definition[f] = None

\* field f of the definition is absent or empty
EmptyIn(f, definition) ==
    IF f = "tools" THEN definition.tools.isNone \/ definition.tools.items = << >>
    ELSE definition[f] \in {None, ""}

\* the fields the rewrite of application k clears
ClearedBy(k) ==
    IF applied[k].outcome = "TemperatureRemoved" THEN {"temperature", "top_p"} ELSE {}

\* C16: a field that is absent in the version a rewrite read is not passed
\* to the definition it publishes with a null or empty value, unless it is a
\* field that rewrite clears (temperature and top_p in the sampling strip).
C16_AbsentNotSent ==
    \A k \in Published :
        \A f \in applied[k].kwargs :
            ( /\ AbsentIn(f, ReadBy(k).definition)
              /\ EmptyIn(f, remote["A"][applied[k].version].definition) )
                => f \in ClearedBy(k)

====
